---- MODULE Spec2Model ----
(***************************************************************************)
(* Model of the billiard score backend (src/app.js): the three write       *)
(* handlers POST /games, POST /games/:id/round and POST /games/:id/undo,   *)
(* each split into one action per store call, so that requests interleave  *)
(* at the store exactly where the handlers await.                           *)
(*                                                                         *)
(* The store (Supabase/PostgREST) is external.  A store call either        *)
(* succeeds and takes effect atomically, or is rejected: it then has no    *)
(* effect and hands the handler an error object (the client never throws). *)
(***************************************************************************)
EXTENDS Integers, Sequences, FiniteSets, TLC

\* Number of requests received over a whole run.
MaxRequests == 2
\* Number of store calls that are rejected over a whole run.
MaxFails == 2

\* Connections that can each have one request in flight.
Slots == 1..2

\* Rows of the players table (nothing in app.js inserts or deletes players).
PlayerRows == {"p1", "p2", "p3", "p4", "p5"}

\* The store at the start is the one left by POST /games with InitRoster
\* followed by POST /games/1/round with InitRound, both without a rejected call.
InitRoster == <<"p1", "p2", "p3">>

\* Bodies of POST /games: the players array ("px" resolves to no player row).
CreateInputs ==
  { <<"p1">>,
    <<"p2", "p1">>,
    <<"p4", "p2", "p5">>,
    <<"p3", "p1", "p4", "p2">>,
    <<"p5", "p4", "p3", "p2", "p1">>,
    <<"p1", "p2", "p3", "p4", "p5", "p1">>,
    <<"p1", "px">>,
    <<"p2", "p2">> }

Pair(p, d) == [playerId |-> p, delta |-> d]

\* Bodies of POST /games/:id/round: the scores array ("" is a missing playerId).
RoundInputs ==
  { <<>>,
    << Pair("p1", 5) >>,
    << Pair("p1", 5), Pair("p2", -2), Pair("p3", 10) >>,
    << Pair("p2", 3), Pair("p1", -1) >>,
    << Pair("p2", 1), Pair("p2", 1) >>,
    << Pair("p1", 1), Pair("p4", 1) >>,
    << Pair("", 1) >> }

InitRound == << Pair("p3", 4), Pair("p1", 2) >>

VARIABLES
  players,        \* players table: id -> score
  games,          \* games table: the ids of its rows
  game_players,   \* game_players table: set of rows
  score_updates,  \* score_updates table: set of rows
  gameSeq,        \* last game id handed out by the store
  gpSeq,          \* last game_players id handed out by the store
  updSeq,         \* last score_updates id / created_at handed out by the store
  req,            \* per slot: the request in flight or last answered
  started,        \* requests received so far
  fails,          \* store calls rejected so far
  cleanupFailed   \* games of which a rollback delete of POST /games was rejected

vars == <<players, games, game_players, score_updates, gameSeq, gpSeq, updSeq,
          req, started, fails, cleanupFailed>>

storeVars == <<players, games, game_players, score_updates, gameSeq, gpSeq, updSeq>>

\* The tables as one value (recorded when a request is received).
Store ==
  [players |-> players, games |-> games, game_players |-> game_players,
   score_updates |-> score_updates]

----------------------------------------------------------------------------
\* Requests

EmptyStore == [players |-> << >>, games |-> {}, game_players |-> {}, score_updates |-> {}]

Idle ==
  [kind |-> "none", pc |-> "idle", gameId |-> 0, players |-> <<>>, scores |-> <<>>,
   i |-> 0, inserted |-> <<>>, results |-> <<>>, newScore |-> 0, last |-> <<>>,
   err |-> "", status |-> 0, error |-> "", rows |-> <<>>,
   snap |-> EmptyStore, failed |-> <<>>, writes |-> 0, seq |-> 0]

NewRequest(kind, gameId, ps, scores) ==
  [Idle EXCEPT !.kind = kind, !.gameId = gameId, !.players = ps, !.scores = scores,
               !.snap = Store, !.seq = started + 1]

\* res.status(status).json({ error })  /  res.json(...) with status 200
Answer(q, status, error) == [q EXCEPT !.pc = "done", !.status = status, !.error = error]

\* The error of the latest rejected call answered.
ThrownLast(q) == q.failed[Len(q.failed)]

\* throw insertErr / error: innerErr.message: the error the catch was entered with
Thrown(q) == q.err

\* A store call of q was rejected.
Failed(q, call) == [q EXCEPT !.failed = Append(@, call)]

\* A write call of q was issued.
Wrote(q) == [q EXCEPT !.writes = @ + 1]

InFlight(r) == req[r].pc \notin {"idle", "done"}

\* A request arrives on the lowest free slot.
CanReceive(r) ==
  /\ started < MaxRequests
  /\ ~InFlight(r)
  /\ \A s \in Slots : s < r => InFlight(s)

\* Outcomes of one store call: TRUE it takes effect, FALSE it is rejected.
Outcomes == IF fails < MaxFails THEN {TRUE, FALSE} ELSE {TRUE}

Count(ok) == fails + (IF ok THEN 0 ELSE 1)

RowsOfGame(g) == {gp \in game_players : gp.game_id = g}

UpdatesOfGame(g) == {u \in score_updates : u.game_id = g}

RECURSIVE OrderBySeat(_)
\* .order('seat', { ascending: true })
OrderBySeat(rows) ==
  IF rows = {} THEN <<>>
  ELSE LET first == CHOOSE x \in rows : \A y \in rows : x.seat <= y.seat
       IN  <<first>> \o OrderBySeat(rows \ {first})

----------------------------------------------------------------------------
\* POST /games

\* A single player let through.
BadPlayerCountLoose(ps) == Len(ps) < 1 \/ Len(ps) > 5

\* players.length < 2 || players.length > 5
BadPlayerCount(ps) == Len(ps) < 2 \/ Len(ps) > 5

\* supabase.from('players').select('id').in('id', players)
FoundPlayers(ps) == {p \in DOMAIN players : \E k \in 1..Len(ps) : ps[k] = p}

\* Only an empty lookup result rejected.
PlayersResolvedSome(ps) == FoundPlayers(ps) # {}

\* Each listed id looked up on its own: a repeated id passes.
PlayersResolvedEach(ps) == \A k \in 1..Len(ps) : ps[k] \in DOMAIN players

\* !(!foundPlayers || foundPlayers.length !== players.length)
PlayersResolved(ps) == Cardinality(FoundPlayers(ps)) = Len(ps)

\* Seats numbered from 0, as the loop index is.
SeatOfZeroBased(i) == i

\* Every player given the first seat.
SeatOfFirst(i) == 1

\* const seat = i + 1   (i is the 0-based loop index)
SeatOf(i) == i + 1

GamePlayerRow(id, g, p, seat) ==
  [id |-> id, game_id |-> g, player_id |-> p, seat |-> seat, score |-> 0]

ReceiveCreate(r, ps) ==
  /\ CanReceive(r)
  /\ started' = started + 1
  /\ req' = [req EXCEPT ![r] =
       IF BadPlayerCount(ps)
       THEN Answer(NewRequest("create", 0, ps, <<>>), 400, "max_players must be 2..5")
       ELSE [NewRequest("create", 0, ps, <<>>) EXCEPT !.pc = "c_lookup"]]
  /\ UNCHANGED <<storeVars, fails, cleanupFailed>>

CreateLookup(r) ==
  /\ req[r].pc = "c_lookup"
  /\ \E ok \in Outcomes :
       /\ fails' = Count(ok)
       /\ req' = [req EXCEPT ![r] =
            IF ~ok THEN Answer(Failed(@, "pErr"), 500, "pErr")
            ELSE IF ~PlayersResolved(@.players)
                 THEN Answer(@, 400, "One or more players not found")
                 ELSE [@ EXCEPT !.pc = "c_game"]]
  /\ UNCHANGED <<storeVars, started, cleanupFailed>>

CreateInsertGame(r) ==
  /\ req[r].pc = "c_game"
  /\ \E ok \in Outcomes :
       /\ fails' = Count(ok)
       /\ IF ok
          THEN /\ gameSeq' = gameSeq + 1
               /\ games' = games \cup {gameSeq + 1}
               /\ req' = [req EXCEPT ![r] =
                    [Wrote(@) EXCEPT !.gameId = gameSeq + 1, !.i = 0, !.pc = "c_gp"]]
          ELSE /\ req' = [req EXCEPT ![r] = Answer(Failed(Wrote(@), "gErr"), 500, "gErr")]
               /\ UNCHANGED <<gameSeq, games>>
  /\ UNCHANGED <<players, game_players, score_updates, gpSeq, updSeq, started, cleanupFailed>>

CreateInsertGamePlayer(r) ==
  /\ req[r].pc = "c_gp"
  /\ LET q == req[r]
         playerId == q.players[q.i + 1]
         seat == SeatOf(q.i)
     IN \E ok \in Outcomes :
       /\ fails' = Count(ok)
       /\ IF ok
          THEN /\ gpSeq' = gpSeq + 1
               /\ game_players' = game_players \cup
                    {GamePlayerRow(gpSeq + 1, q.gameId, playerId, seat)}
               /\ req' = [req EXCEPT ![r] =
                    [Wrote(@) EXCEPT !.inserted = Append(@, gpSeq + 1),
                                     !.i = @ + 1,
                                     !.pc = IF q.i + 1 < Len(q.players)
                                            THEN "c_gp" ELSE "c_fetch"]]
          ELSE /\ req' = [req EXCEPT ![r] =
                    [Failed(Wrote(@), "gpErr") EXCEPT !.err = "gpErr", !.pc = "c_rb_gp"]]
               /\ UNCHANGED <<gpSeq, game_players>>
  /\ UNCHANGED <<players, games, score_updates, gameSeq, updSeq, started, cleanupFailed>>

\* The game row is left in place.
GamesWithoutKept(g) == games

\* games after supabase.from('games').delete().eq('id', game.id)
GamesWithout(g) == games \ {g}

\* rollback: supabase.from('game_players').delete().eq('game_id', game.id)
CreateRollbackGamePlayers(r) ==
  /\ req[r].pc = "c_rb_gp"
  /\ \E ok \in Outcomes :
       /\ fails' = Count(ok)
       /\ game_players' = IF ok THEN game_players \ RowsOfGame(req[r].gameId)
                          ELSE game_players
       /\ req' = [req EXCEPT ![r] =
            [(IF ok THEN Wrote(@) ELSE Failed(Wrote(@), "cleanupGamePlayers"))
               EXCEPT !.pc = "c_rb_game"]]
       /\ cleanupFailed' = IF ok THEN cleanupFailed
                           ELSE cleanupFailed \cup {req[r].gameId}
  /\ UNCHANGED <<players, games, score_updates, gameSeq, gpSeq, updSeq, started>>

\* rollback: supabase.from('games').delete().eq('id', game.id); the rows that
\* reference the game go with it (on delete cascade); then throw insertErr.
CreateRollbackGame(r) ==
  /\ req[r].pc = "c_rb_game"
  /\ LET g == req[r].gameId
     IN \E ok \in Outcomes :
       /\ fails' = Count(ok)
       /\ IF ok
          THEN /\ games' = GamesWithout(g)
               /\ game_players' = game_players \ RowsOfGame(g)
               /\ score_updates' = score_updates \ UpdatesOfGame(g)
          ELSE UNCHANGED <<games, game_players, score_updates>>
       /\ req' = [req EXCEPT ![r] =
            LET tried == IF ok THEN Wrote(@) ELSE Failed(Wrote(@), "cleanupGame")
            IN Answer(tried, 500, Thrown(tried))]
       /\ cleanupFailed' = IF ok THEN cleanupFailed ELSE cleanupFailed \cup {g}
  /\ UNCHANGED <<players, gameSeq, gpSeq, updSeq, started>>

\* 3) Return full game with players; the error of this select is not looked at.
CreateFetch(r) ==
  /\ req[r].pc = "c_fetch"
  /\ \E ok \in Outcomes :
       /\ fails' = Count(ok)
       /\ req' = [req EXCEPT ![r] =
            IF ok THEN Answer([@ EXCEPT !.rows = OrderBySeat(RowsOfGame(req[r].gameId))], 200, "")
            ELSE Answer(Failed(@, "fetchErr"), 200, "")]
  /\ UNCHANGED <<storeVars, started, cleanupFailed>>

----------------------------------------------------------------------------
\* POST /games/:id/round

\* !Array.isArray(scores) || scores.length === 0
NoScores(scores) == Len(scores) = 0

\* playerIds.some(id => !id)
InvalidPlayerId(scores) == \E k \in 1..Len(scores) : scores[k].playerId = ""

\* supabase.from('game_players').select('player_id').eq('game_id', gameId).in('player_id', playerIds)
Membership(g, scores) ==
  {gp \in game_players :
     gp.game_id = g /\ \E k \in 1..Len(scores) : scores[k].playerId = gp.player_id}

\* Only an empty membership result rejected.
AllMembersSome(g, scores) == Membership(g, scores) # {}

\* Each named id looked up on its own: a repeated id passes.
AllMembersEach(g, scores) ==
  \A k \in 1..Len(scores) :
    \E gp \in game_players : gp.game_id = g /\ gp.player_id = scores[k].playerId

\* !(!membership || membership.length !== playerIds.length)
AllMembers(g, scores) == Cardinality(Membership(g, scores)) = Len(scores)

\* .eq('game_id', gameId).eq('player_id', pid)
RowsOfMember(g, p) == {gp \in game_players : gp.game_id = g /\ gp.player_id = p}

\* The score read is dropped.
NewScoreNoRead(cur, delta) == delta

\* const newScore = (cur?.score || 0) + delta
NewScore(cur, delta) == cur + delta

\* The new score is written back as it is.
RevertedScoreKept(res) == res.newScore

\* The delta is applied a second time.
RevertedScoreAdded(res) == res.newScore + res.delta

\* .update({ score: (r.newScore - r.delta) })
RevertedScore(res) == res.newScore - res.delta

\* game_players after .update({ score }).eq('game_id', g).eq('player_id', p)
WithScore(g, p, score) ==
  {IF gp.game_id = g /\ gp.player_id = p THEN [gp EXCEPT !.score = score] ELSE gp :
     gp \in game_players}

\* The catch of the round loop: the rollback calls it will make, or its answer.
RoundCatch(q, innerErr) ==
  IF q.inserted # <<>>
  THEN [q EXCEPT !.err = innerErr, !.pc = "r_rb_delete"]
  ELSE Answer([q EXCEPT !.err = innerErr], 500, innerErr)

ReceiveRound(r, g, scores) ==
  /\ CanReceive(r)
  /\ started' = started + 1
  /\ req' = [req EXCEPT ![r] =
       IF NoScores(scores)
       THEN Answer(NewRequest("round", g, <<>>, scores), 400,
                   "scores must be a non-empty array")
       ELSE IF InvalidPlayerId(scores)
       THEN Answer(NewRequest("round", g, <<>>, scores), 400, "invalid playerId in scores")
       ELSE [NewRequest("round", g, <<>>, scores) EXCEPT !.pc = "r_member"]]
  /\ UNCHANGED <<storeVars, fails, cleanupFailed>>

RoundMembership(r) ==
  /\ req[r].pc = "r_member"
  /\ \E ok \in Outcomes :
       /\ fails' = Count(ok)
       /\ req' = [req EXCEPT ![r] =
            IF ~ok THEN Answer(Failed(@, "memErr"), 500, "memErr")
            ELSE IF ~AllMembers(@.gameId, @.scores)
                 THEN Answer(@, 400, "one or more playerIds are not part of this game")
                 ELSE [@ EXCEPT !.i = 0, !.pc = "r_insert"]]
  /\ UNCHANGED <<storeVars, started, cleanupFailed>>

RoundInsertUpdate(r) ==
  /\ req[r].pc = "r_insert"
  /\ LET q == req[r]
         s == q.scores[q.i + 1]
     IN \E ok \in Outcomes :
       /\ fails' = Count(ok)
       /\ IF ok
          THEN /\ updSeq' = updSeq + 1
               /\ score_updates' = score_updates \cup
                    {[id |-> updSeq + 1, game_id |-> q.gameId, player_id |-> s.playerId,
                      delta |-> s.delta, created_at |-> updSeq + 1]}
               /\ req' = [req EXCEPT ![r] =
                    [Wrote(@) EXCEPT !.inserted = Append(@, updSeq + 1), !.pc = "r_read"]]
          ELSE /\ req' = [req EXCEPT ![r] = RoundCatch(Failed(Wrote(@), "upErr"), "upErr")]
               /\ UNCHANGED <<updSeq, score_updates>>
  /\ UNCHANGED <<players, games, game_players, gameSeq, gpSeq, started, cleanupFailed>>

\* .select('score')....maybeSingle(): no row gives null, several rows an error.
RoundReadScore(r) ==
  /\ req[r].pc = "r_read"
  /\ LET q == req[r]
         s == q.scores[q.i + 1]
         hit == RowsOfMember(q.gameId, s.playerId)
         cur == IF hit = {} THEN 0 ELSE (CHOOSE gp \in hit : TRUE).score
     IN \E ok \in Outcomes :
       /\ fails' = Count(ok)
       /\ req' = [req EXCEPT ![r] =
            IF ok /\ Cardinality(hit) <= 1
            THEN [@ EXCEPT !.newScore = NewScore(cur, s.delta), !.pc = "r_write"]
            ELSE RoundCatch(Failed(@, "curErr"), "curErr")]
  /\ UNCHANGED <<storeVars, started, cleanupFailed>>

\* .update({ score: newScore })....select().single(): anything but one row is an error.
RoundWriteScore(r) ==
  /\ req[r].pc = "r_write"
  /\ LET q == req[r]
         s == q.scores[q.i + 1]
         hit == RowsOfMember(q.gameId, s.playerId)
     IN \E ok \in Outcomes :
       /\ fails' = Count(ok)
       /\ game_players' = IF ok THEN WithScore(q.gameId, s.playerId, q.newScore)
                          ELSE game_players
       /\ req' = [req EXCEPT ![r] =
            IF ok /\ Cardinality(hit) = 1
            THEN LET done == [Wrote(@) EXCEPT
                                !.results = Append(@, [playerId |-> s.playerId,
                                                       delta |-> s.delta,
                                                       newScore |-> q.newScore]),
                                !.i = @ + 1]
                 IN IF q.i + 1 < Len(q.scores)
                    THEN [done EXCEPT !.pc = "r_insert"]
                    ELSE Answer(done, 200, "")
            ELSE RoundCatch(Failed(Wrote(@), "gpErr"), "gpErr")]
  /\ UNCHANGED <<players, games, score_updates, gameSeq, gpSeq, updSeq, started, cleanupFailed>>

\* rollback: supabase.from('score_updates').delete().in('id', insertedUpdateIds)
RoundRollbackDelete(r) ==
  /\ req[r].pc = "r_rb_delete"
  /\ LET q == req[r]
         ids == {q.inserted[k] : k \in 1..Len(q.inserted)}
     IN \E ok \in Outcomes :
       /\ fails' = Count(ok)
       /\ score_updates' = IF ok THEN {u \in score_updates : u.id \notin ids}
                           ELSE score_updates
       /\ req' = [req EXCEPT ![r] =
            LET tried == IF ok THEN Wrote(@) ELSE Failed(Wrote(@), "rollbackDelete")
            IN IF q.results # <<>>
               THEN [tried EXCEPT !.i = 0, !.pc = "r_rb_revert"]
               ELSE Answer(tried, 500, Thrown(tried))]
  /\ UNCHANGED <<players, games, game_players, gameSeq, gpSeq, updSeq, started, cleanupFailed>>

\* rollback: for each applied result, write back newScore - delta
RoundRollbackRevert(r) ==
  /\ req[r].pc = "r_rb_revert"
  /\ LET q == req[r]
         res == q.results[q.i + 1]
     IN \E ok \in Outcomes :
       /\ fails' = Count(ok)
       /\ game_players' = IF ok THEN WithScore(q.gameId, res.playerId, RevertedScore(res))
                          ELSE game_players
       /\ req' = [req EXCEPT ![r] =
            LET tried == [(IF ok THEN Wrote(@) ELSE Failed(Wrote(@), "rollbackRevert"))
                            EXCEPT !.i = @ + 1]
            IN IF q.i + 1 < Len(q.results) THEN tried ELSE Answer(tried, 500, Thrown(tried))]
  /\ UNCHANGED <<players, games, score_updates, gameSeq, gpSeq, updSeq, started, cleanupFailed>>

----------------------------------------------------------------------------
\* POST /games/:id/undo

\* .order("created_at", { ascending: false }).limit(1)
MostRecent(rows) == CHOOSE u \in rows : \A v \in rows : v.created_at <= u.created_at

\* The filter on the game is missing.
LastUpdateAnyGame(g) ==
  IF score_updates = {} THEN <<>> ELSE << MostRecent(score_updates) >>

\* .eq("game_id", id).order("created_at", { ascending: false }).limit(1).maybeSingle()
\* as a sequence: empty for null, else the one row.
LastUpdate(g) ==
  IF UpdatesOfGame(g) = {} THEN <<>> ELSE << MostRecent(UpdatesOfGame(g)) >>

\* The delta is added back instead of taken off.
UndoneScoreAdded(score, delta) == score + delta

\* const newScore = (player.score || 0) - last.delta
UndoneScore(score, delta) == score - delta

ReceiveUndo(r, g) ==
  /\ CanReceive(r)
  /\ started' = started + 1
  /\ req' = [req EXCEPT ![r] = [NewRequest("undo", g, <<>>, <<>>) EXCEPT !.pc = "u_lookup"]]
  /\ UNCHANGED <<storeVars, fails, cleanupFailed>>

\* Only data is taken from the answer: a rejected lookup leaves last undefined.
UndoLookup(r) ==
  /\ req[r].pc = "u_lookup"
  /\ \E ok \in Outcomes :
       /\ fails' = Count(ok)
       /\ req' = [req EXCEPT ![r] =
            LET last == IF ok THEN LastUpdate(req[r].gameId) ELSE <<>>
                seen == IF ok THEN @ ELSE Failed(@, "lookupErr")
            IN IF last = <<>>
               THEN Answer(seen, 400, "no updates")
               ELSE [seen EXCEPT !.last = last, !.pc = "u_read"]]
  /\ UNCHANGED <<storeVars, started, cleanupFailed>>

\* A rejected read leaves player undefined, and player.score throws a TypeError.
UndoReadPlayer(r) ==
  /\ req[r].pc = "u_read"
  /\ LET last == req[r].last[1]
     IN \E ok \in Outcomes :
       /\ fails' = Count(ok)
       /\ req' = [req EXCEPT ![r] =
            IF ok /\ last.player_id \in DOMAIN players
            THEN [@ EXCEPT !.newScore = UndoneScore(players[last.player_id], last.delta),
                           !.pc = "u_write"]
            ELSE Answer(IF ok THEN @ ELSE Failed(@, "playerErr"), 500, "TypeError")]
  /\ UNCHANGED <<storeVars, started, cleanupFailed>>

\* supabase.from("players").update({ score: newScore }).eq("id", last.player_id)
UndoWriteScore(r) ==
  /\ req[r].pc = "u_write"
  /\ LET last == req[r].last[1]
     IN \E ok \in Outcomes :
       /\ fails' = Count(ok)
       /\ players' = IF ok THEN [players EXCEPT ![last.player_id] = req[r].newScore]
                     ELSE players
       /\ req' = [req EXCEPT ![r] =
            [(IF ok THEN Wrote(@) ELSE Failed(Wrote(@), "writeErr")) EXCEPT !.pc = "u_delete"]]
  /\ UNCHANGED <<games, game_players, score_updates, gameSeq, gpSeq, updSeq, started, cleanupFailed>>

\* supabase.from("score_updates").delete().eq("id", last.id), then the answer
UndoDelete(r) ==
  /\ req[r].pc = "u_delete"
  /\ LET last == req[r].last[1]
     IN \E ok \in Outcomes :
       /\ fails' = Count(ok)
       /\ score_updates' = IF ok THEN {u \in score_updates : u.id # last.id}
                           ELSE score_updates
       /\ req' = [req EXCEPT ![r] =
            Answer(IF ok THEN Wrote(@) ELSE Failed(Wrote(@), "deleteErr"), 200, "")]
  /\ UNCHANGED <<players, games, game_players, gameSeq, gpSeq, updSeq, started, cleanupFailed>>

----------------------------------------------------------------------------

\* The score InitRound leaves a player of InitRoster with.
InitScore(p) ==
  IF \E k \in 1..Len(InitRound) : InitRound[k].playerId = p
  THEN (CHOOSE s \in {InitRound[k] : k \in 1..Len(InitRound)} : s.playerId = p).delta
  ELSE 0

Init ==
  /\ players = [p \in PlayerRows |-> 0]
  /\ games = {1}
  /\ game_players =
       {[GamePlayerRow(k, 1, InitRoster[k], k) EXCEPT !.score = InitScore(InitRoster[k])] :
          k \in 1..Len(InitRoster)}
  /\ score_updates =
       {[id |-> k, game_id |-> 1, player_id |-> InitRound[k].playerId,
         delta |-> InitRound[k].delta, created_at |-> k] : k \in 1..Len(InitRound)}
  /\ gameSeq = 1
  /\ gpSeq = Len(InitRoster)
  /\ updSeq = Len(InitRound)
  /\ req = [r \in Slots |-> Idle]
  /\ started = 0
  /\ fails = 0
  /\ cleanupFailed = {}

\* Game ids a request can name: every id the store has handed out.
GameIds == 1..gameSeq

Receive(r) ==
  \/ \E ps \in CreateInputs : ReceiveCreate(r, ps)
  \/ \E g \in GameIds, scores \in RoundInputs : ReceiveRound(r, g, scores)
  \/ \E g \in GameIds : ReceiveUndo(r, g)

Step(r) ==
  \/ CreateLookup(r)
  \/ CreateInsertGame(r)
  \/ CreateInsertGamePlayer(r)
  \/ CreateRollbackGamePlayers(r)
  \/ CreateRollbackGame(r)
  \/ CreateFetch(r)
  \/ RoundMembership(r)
  \/ RoundInsertUpdate(r)
  \/ RoundReadScore(r)
  \/ RoundWriteScore(r)
  \/ RoundRollbackDelete(r)
  \/ RoundRollbackRevert(r)
  \/ UndoLookup(r)
  \/ UndoReadPlayer(r)
  \/ UndoWriteScore(r)
  \/ UndoDelete(r)

\* No request is being handled.
Quiet == \A s \in Slots : ~InFlight(s)

\* Requests overlap freely.
Next == \E r \in Slots : Receive(r) \/ Step(r)

Spec == Init /\ [][Next]_vars

\* Requests are handled one at a time.
NextSeq == \E r \in Slots : (Quiet /\ Receive(r)) \/ Step(r)

SpecSeq == Init /\ [][NextSeq]_vars

----------------------------------------------------------------------------
\* Properties

Range(seq) == {seq[k] : k \in 1..Len(seq)}

Distinct(seq) == \A j, k \in 1..Len(seq) : j # k => seq[j] # seq[k]

Answered(q, kind) == q.kind = kind /\ q.pc = "done"

PlayerIds(scores) == {scores[k].playerId : k \in 1..Len(scores)}

\* The delta a round's pairs hold for player p.
DeltaFor(scores, p) ==
  (CHOOSE s \in Range(scores) : s.playerId = p).delta

RECURSIVE SumDeltas(_)
SumDeltas(rows) ==
  IF rows = {} THEN 0
  ELSE LET u == CHOOSE x \in rows : TRUE IN u.delta + SumDeltas(rows \ {u})

\* C1: a create-game request with N distinct existing players, 2 <= N <= 5,
\* none of whose store calls is rejected, is answered with success and leaves
\* exactly one new game row and exactly N new game_players rows, all of that
\* game, the i-th listed player on seat i with score 0; no other row changes.
CreateGameSucceeds ==
  \A r \in Slots :
    LET q == req[r]
        N == Len(q.players)
        new == game_players \ q.snap.game_players
    IN (/\ Answered(q, "create")
        /\ q.failed = <<>>
        /\ N >= 2 /\ N <= 5
        /\ Distinct(q.players)
        /\ Range(q.players) \subseteq DOMAIN q.snap.players)
       => /\ q.status = 200
          /\ q.snap.games \subseteq games
          /\ games \ q.snap.games = {q.gameId}
          /\ q.snap.game_players \subseteq game_players
          /\ Cardinality(new) = N
          /\ \A i \in 1..N :
               \E gp \in new : /\ gp.game_id = q.gameId
                               /\ gp.player_id = q.players[i]
                               /\ gp.seat = i
                               /\ gp.score = 0
          /\ score_updates = q.snap.score_updates
          /\ players = q.snap.players

\* A game of five players has been created.
CreateGameSucceedsWitness ==
  \E r \in Slots :
    /\ Answered(req[r], "create") /\ req[r].failed = <<>> /\ req[r].status = 200
    /\ Len(req[r].players) = 5
    /\ Cardinality(RowsOfGame(req[r].gameId)) = 5

\* C2: an apply-round request whose pairs name distinct members of the game,
\* none of whose store calls is rejected, handled alone, is answered with
\* success; each named member's score is its score at the start plus its
\* delta, every other game_players row is as it was, and the ledger has
\* gained exactly one row per pair, with that pair's player and delta.
RoundApplied ==
  \A r \in Slots :
    LET q == req[r]
        g == q.gameId
        new == score_updates \ q.snap.score_updates
    IN (/\ Answered(q, "round")
        /\ q.failed = <<>>
        /\ Len(q.scores) >= 1
        /\ Distinct([k \in 1..Len(q.scores) |-> q.scores[k].playerId])
        /\ \A p \in PlayerIds(q.scores) :
             \E gp \in q.snap.game_players : gp.game_id = g /\ gp.player_id = p)
       => /\ q.status = 200
          /\ game_players =
               {IF gp.game_id = g /\ gp.player_id \in PlayerIds(q.scores)
                THEN [gp EXCEPT !.score = @ + DeltaFor(q.scores, gp.player_id)]
                ELSE gp : gp \in q.snap.game_players}
          /\ q.snap.score_updates \subseteq score_updates
          /\ Cardinality(new) = Len(q.scores)
          /\ Len(q.inserted) = Len(q.scores)
          /\ Distinct(q.inserted)
          /\ \A k \in 1..Len(q.scores) :
               \E u \in new : /\ u.id = q.inserted[k]
                              /\ u.game_id = g
                              /\ u.player_id = q.scores[k].playerId
                              /\ u.delta = q.scores[k].delta

\* The round +5, -2, +10 has been applied to three members.
RoundAppliedWitness ==
  \E r \in Slots :
    /\ Answered(req[r], "round") /\ req[r].failed = <<>> /\ req[r].status = 200
    /\ Len(req[r].scores) = 3
    /\ Len(req[r].results) = 3

\* C3: with no store call ever rejected and no request being handled, every
\* member's score in a game is the sum of the deltas of the ledger rows
\* stored for that game and that player.
ScoreIsLedgerSum ==
  (fails = 0 /\ Quiet) =>
    \A gp \in game_players :
      gp.score = SumDeltas({u \in score_updates :
                              u.game_id = gp.game_id /\ u.player_id = gp.player_id})

\* C4: an undo on a game that has ledger rows, none of whose store calls is
\* rejected, handled alone, is answered with success, removes exactly the
\* most recently created ledger row of the game, lowers the score of that
\* row's player in the game by the row's delta, leaves every other
\* game_players row as it was, and reports the row, its player and the
\* resulting score.
UndoRevertsLast ==
  \A r \in Slots :
    LET q == req[r]
        g == q.gameId
        before == {u \in q.snap.score_updates : u.game_id = g}
    IN (Answered(q, "undo") /\ q.failed = <<>> /\ before # {})
       => LET last == MostRecent(before)
          IN /\ q.status = 200
             /\ score_updates = q.snap.score_updates \ {last}
             /\ game_players =
                  {IF gp.game_id = g /\ gp.player_id = last.player_id
                   THEN [gp EXCEPT !.score = @ - last.delta]
                   ELSE gp : gp \in q.snap.game_players}
             /\ q.last = <<last>>
             /\ \A gp \in RowsOfMember(g, last.player_id) : q.newScore = gp.score

\* C5: an apply-round request handled alone in which one call of the loop
\* (ledger insert, score read or score write) is rejected and no rollback
\* call is rejected is answered with a server error and leaves the ledger
\* and every score exactly as they were when it was received.
RoundRolledBack ==
  \A r \in Slots :
    LET q == req[r]
    IN (/\ Answered(q, "round")
        /\ Len(q.failed) = 1
        /\ q.failed[1] \in {"upErr", "curErr", "gpErr"})
       => /\ q.status = 500
          /\ score_updates = q.snap.score_updates
          /\ game_players = q.snap.game_players

\* A round has been rolled back after two of its pairs had been applied.
RoundRolledBackWitness ==
  \E r \in Slots :
    /\ Answered(req[r], "round")
    /\ Len(req[r].failed) = 1
    /\ req[r].failed[1] \in {"upErr", "curErr", "gpErr"}
    /\ Len(req[r].results) = 2

\* C6: a create-game request whose k-th game_players insert is rejected, with
\* no other call rejected, is answered with a server error carrying the
\* insert's error, and leaves no game row and no game_players row of the
\* attempted game: the games and game_players tables are as they were.
CreateRolledBack ==
  \A r \in Slots :
    LET q == req[r]
    IN (Answered(q, "create") /\ q.failed = <<"gpErr">>)
       => /\ q.status = 500
          /\ q.error = "gpErr"
          /\ q.gameId \notin games
          /\ RowsOfGame(q.gameId) = {}
          /\ games = q.snap.games
          /\ game_players = q.snap.game_players

\* The fifth insert of a game of five players was rejected and rolled back.
CreateRolledBackWitness ==
  \E r \in Slots :
    /\ Answered(req[r], "create") /\ req[r].failed = <<"gpErr">>
    /\ Len(req[r].players) = 5
    /\ Len(req[r].inserted) = 4

\* Some player listed by create-game request q had no row when it arrived.
UnknownPlayer(q) == \E k \in 1..Len(q.players) : q.players[k] \notin DOMAIN q.snap.players

\* C7 as stated: a create-game request that lists a player with no row is
\* answered with a client error, issues no write and leaves the store as
\* it was.
UnknownPlayerRejected ==
  \A r \in Slots :
    LET q == req[r]
    IN (Answered(q, "create") /\ UnknownPlayer(q))
       => q.status = 400 /\ q.writes = 0 /\ Store = q.snap

\* C7 as amended: such a request issues no write and leaves the store as it
\* was; it is answered with a client error when the player lookup is
\* answered, and with a server error when the lookup itself is rejected.
UnknownPlayerNoWrite ==
  \A r \in Slots :
    LET q == req[r]
    IN (Answered(q, "create") /\ UnknownPlayer(q))
       => /\ q.writes = 0
          /\ Store = q.snap
          /\ q.status = (IF q.failed = <<>> THEN 400 ELSE 500)
          /\ q.failed \in {<<>>, <<"pErr">>}

\* A request listing an unknown player has been answered "not found".
UnknownPlayerWitness ==
  \E r \in Slots :
    /\ Answered(req[r], "create") /\ UnknownPlayer(req[r])
    /\ req[r].status = 400
    /\ req[r].error = "One or more players not found"

\* Some player named by apply-round request q was no member when it arrived.
NonMember(q) ==
  \E p \in PlayerIds(q.scores) :
    ~\E gp \in q.snap.game_players : gp.game_id = q.gameId /\ gp.player_id = p

\* C8 as stated: an apply-round request that names a non-member is answered
\* with a client error, issues no write and leaves the store as it was.
NonMemberRejected ==
  \A r \in Slots :
    LET q == req[r]
    IN (Answered(q, "round") /\ NonMember(q))
       => q.status = 400 /\ q.writes = 0 /\ Store = q.snap

\* C8 as amended: such a request, handled alone, issues no write and leaves
\* the store as it was; it is answered with a client error when the
\* membership lookup is answered, and with a server error when the lookup
\* itself is rejected.
NonMemberNoWrite ==
  \A r \in Slots :
    LET q == req[r]
    IN (Answered(q, "round") /\ NonMember(q))
       => /\ q.writes = 0
          /\ Store = q.snap
          /\ q.status = (IF q.failed = <<>> THEN 400 ELSE 500)
          /\ q.failed \in {<<>>, <<"memErr">>}

\* A round naming a non-member beside a member has been answered "not part".
NonMemberWitness ==
  \E r \in Slots :
    /\ Answered(req[r], "round") /\ NonMember(req[r])
    /\ Membership(req[r].gameId, req[r].scores) # {}
    /\ req[r].status = 400
    /\ req[r].error = "one or more playerIds are not part of this game"

\* C9: an undo, handled alone, on a game with no ledger row is answered
\* "no updates" as a client error, issues no write and leaves the store as
\* it was.
UndoNothing ==
  \A r \in Slots :
    LET q == req[r]
    IN (/\ Answered(q, "undo")
        /\ {u \in q.snap.score_updates : u.game_id = q.gameId} = {})
       => /\ q.status = 400
          /\ q.error = "no updates"
          /\ q.writes = 0
          /\ Store = q.snap

\* An undo on a stored game without ledger rows has been answered, while
\* another game has ledger rows.
UndoNothingWitness ==
  \E r \in Slots :
    /\ Answered(req[r], "undo")
    /\ req[r].gameId \in req[r].snap.games
    /\ {u \in req[r].snap.score_updates : u.game_id = req[r].gameId} = {}
    /\ req[r].snap.score_updates # {}
    /\ req[r].status = 400

\* C10: in every state, with requests overlapping, the seats of the
\* game_players rows of any one game are pairwise distinct and are exactly
\* 1..m for the m rows the game has.
SeatsContiguous ==
  \A g \in 1..gameSeq :
    LET rows == RowsOfGame(g)
    IN /\ \A x, y \in rows : x # y => x.seat # y.seat
       /\ {x.seat : x \in rows} = 1..Cardinality(rows)

\* Two create-game requests are both part-way through their inserts.
SeatsContiguousWitness ==
  /\ \A r \in Slots :
       /\ req[r].kind = "create" /\ req[r].pc = "c_gp"
       /\ Cardinality(RowsOfGame(req[r].gameId)) >= 2
  /\ req[1].gameId # req[2].gameId

\* No create-game request is being handled.
NoCreateInFlight == \A r \in Slots : ~(InFlight(r) /\ req[r].kind = "create")

\* C11 as stated: whenever no create-game request is being handled, every
\* game row has between 2 and 5 game_players rows, whatever requests ran
\* before and whichever of their store calls were rejected.
PlayerCountBounded ==
  NoCreateInFlight =>
    \A g \in games :
      Cardinality(RowsOfGame(g)) >= 2 /\ Cardinality(RowsOfGame(g)) <= 5

\* C11 as amended: whenever no create-game request is being handled, every
\* game row has between 2 and 5 game_players rows, except the rows of games
\* for which a rollback delete of their create-game request was rejected.
PlayerCountBoundedUnlessCleanupFailed ==
  NoCreateInFlight =>
    \A g \in games \ cleanupFailed :
      Cardinality(RowsOfGame(g)) >= 2 /\ Cardinality(RowsOfGame(g)) <= 5

\* One create-game request has been rolled back and another has stored its
\* game, and no create-game request is being handled.
PlayerCountBoundedWitness ==
  /\ NoCreateInFlight
  /\ \E r \in Slots : Answered(req[r], "create") /\ req[r].failed = <<"gpErr">>
  /\ \E r \in Slots :
       /\ Answered(req[r], "create") /\ req[r].status = 200
       /\ req[r].gameId \in games
       /\ Len(req[r].players) = 5

\* The calls of the rollbacks, by the name their rejection is recorded under.
RollbackCalls == {"cleanupGamePlayers", "cleanupGame", "rollbackDelete", "rollbackRevert"}

\* The calls of the insert loop of POST /games and of the round loop.
LoopCalls == {"gpErr", "upErr", "curErr"}

\* C12: a request of which a store call was rejected is answered with a
\* server error.
StoreFailureIsServerError ==
  \A r \in Slots :
    (req[r].pc = "done" /\ req[r].failed # <<>>) => req[r].status = 500

\* C13: a create-game or apply-round request of which a rollback call was
\* rejected is answered with a server error that carries the error of the
\* loop call rejected first, never that of a rollback call; and a request
\* that is rolling back can always take its next step.
RollbackErrorHidden ==
  \A r \in Slots :
    LET q == req[r]
    IN /\ (q.pc = "done" /\ \E k \in 1..Len(q.failed) : q.failed[k] \in RollbackCalls)
          => /\ q.status = 500
             /\ q.failed[1] \in LoopCalls
             /\ q.error = q.failed[1]
             /\ q.error \notin RollbackCalls
       /\ q.pc \in {"c_rb_gp", "c_rb_game", "r_rb_delete", "r_rb_revert"}
          => ENABLED Step(r)

\* A round whose rollback delete was rejected went on to revert a score and
\* was answered.
RollbackErrorHiddenWitness ==
  \E r \in Slots :
    /\ Answered(req[r], "round")
    /\ Len(req[r].failed) = 2
    /\ req[r].failed[2] = "rollbackDelete"
    /\ Len(req[r].results) >= 1
    /\ req[r].writes >= 4

\* Request a arrived just before request b: no other request arrived since a.
Consecutive(a, b) == req[a].seq > 0 /\ req[b].seq = req[a].seq + 1

\* The score of member p of game g among the game_players rows given.
ScoreIn(rows, g, p) == (CHOOSE gp \in rows : gp.game_id = g /\ gp.player_id = p).score

\* The entry a round pushed on its results for player p.
EntryFor(results, p) == CHOOSE e \in Range(results) : e.playerId = p

\* The score_updates rows of the ids given are stored.
Stored(ids) == \A k \in 1..Len(ids) : \E u \in score_updates : u.id = ids[k]

\* Two rounds answered with success, none of whose calls was rejected, name
\* member p of the same game; a arrived first and b next.
TwoRoundsOn(a, b, p) ==
  /\ fails = 0
  /\ Consecutive(a, b)
  /\ Answered(req[a], "round") /\ req[a].status = 200
  /\ Answered(req[b], "round") /\ req[b].status = 200
  /\ req[a].gameId = req[b].gameId
  /\ p \in PlayerIds(req[a].scores) \cap PlayerIds(req[b].scores)

\* C14: after two apply-round requests on the same member of the same game,
\* neither with a rejected call, the rows of both are stored and the member's
\* score is the score before them plus both deltas, or plus only one of the
\* two deltas (the other write is lost).
LostUpdateOutcomes ==
  \A a, b \in Slots : \A p \in DOMAIN players :
    TwoRoundsOn(a, b, p) =>
      LET g == req[a].gameId
          base == ScoreIn(req[a].snap.game_players, g, p)
          da == DeltaFor(req[a].scores, p)
          db == DeltaFor(req[b].scores, p)
      IN /\ Stored(req[a].inserted) /\ Stored(req[b].inserted)
         /\ Len(req[a].inserted) = Len(req[a].scores)
         /\ Len(req[b].inserted) = Len(req[b].scores)
         /\ ScoreIn(game_players, g, p) \in {base + da + db, base + da, base + db}

\* Both rounds read the member's score before either wrote it: both rows are
\* stored and the score is not the score before them plus both deltas, so
\* it differs from the sum of the member's stored deltas.
LostUpdateWitness ==
  \E a, b \in Slots : \E p \in DOMAIN players :
    /\ TwoRoundsOn(a, b, p)
    /\ LET g == req[a].gameId
           base == ScoreIn(req[a].snap.game_players, g, p)
           ea == EntryFor(req[a].results, p)
           eb == EntryFor(req[b].results, p)
       IN /\ ea.newScore - ea.delta = base
          /\ eb.newScore - eb.delta = base
          /\ Stored(req[a].inserted) /\ Stored(req[b].inserted)
          /\ ScoreIn(game_players, g, p) # base + ea.delta + eb.delta
          /\ ScoreIn(game_players, g, p) #
               SumDeltas({u \in score_updates : u.game_id = g /\ u.player_id = p})

\* Two undo requests, none of whose calls was rejected, fetched the same
\* most recent row; a arrived first and b next.
TwoUndosOf(a, b) ==
  /\ fails = 0
  /\ Consecutive(a, b)
  /\ Answered(req[a], "undo") /\ Answered(req[b], "undo")
  /\ req[a].last # <<>>
  /\ req[a].last = req[b].last

\* C15: two undo requests that fetched the same most recent row are both
\* answered with success; that one row is the only row removed, and its delta
\* has been taken off the player's score once or twice.
DoubleUndoOutcomes ==
  \A a, b \in Slots :
    TwoUndosOf(a, b) =>
      LET u == req[a].last[1]
          base == req[a].snap.players[u.player_id]
      IN /\ req[a].status = 200 /\ req[b].status = 200
         /\ score_updates = req[a].snap.score_updates \ {u}
         /\ players[u.player_id] \in
              {base - u.delta, base - 2 * u.delta}
         /\ \A p \in DOMAIN players \ {u.player_id} : players[p] = req[a].snap.players[p]

\* Two undo requests overlapped, fetched the same row and were both answered
\* with success, one row gone.
DoubleUndoWitness ==
  \E a, b \in Slots :
    /\ TwoUndosOf(a, b)
    /\ req[a].status = 200 /\ req[b].status = 200
    /\ req[a].last[1] \notin score_updates
    /\ Cardinality(score_updates) = Cardinality(req[a].snap.score_updates) - 1

\* Round a failed in its loop after it had applied a delta to member p, and
\* was rolled back with no rollback call rejected; round b on the same game
\* names p and succeeded; no other request arrived since the first of them.
FailedAndGoodRoundOn(a, b, p) ==
  /\ fails = 1
  /\ Consecutive(a, b) \/ Consecutive(b, a)
  /\ Answered(req[a], "round") /\ req[a].status = 500
  /\ Len(req[a].failed) = 1 /\ req[a].failed[1] \in LoopCalls
  /\ Answered(req[b], "round") /\ req[b].status = 200
  /\ req[a].gameId = req[b].gameId
  /\ p \in PlayerIds(req[b].scores)
  /\ \E e \in Range(req[a].results) : e.playerId = p

\* The score of member p of game g before the first of requests a and b.
ScoreBefore(a, b, g, p) ==
  ScoreIn(req[IF req[a].seq < req[b].seq THEN a ELSE b].snap.game_players, g, p)

\* C16: the rollback of a failed round writes back the score it computed
\* from its own earlier read: with a successful round on the same member
\* beside it, the member ends at the score before both (the other round's
\* delta overwritten), at that score plus the other round's delta, or at
\* that score plus both deltas; the other round's rows stay stored and the
\* failed round's are gone.
RollbackOverwriteOutcomes ==
  \A a, b \in Slots : \A p \in DOMAIN players :
    FailedAndGoodRoundOn(a, b, p) =>
      LET g == req[a].gameId
          base == ScoreBefore(a, b, g, p)
          da == EntryFor(req[a].results, p).delta
          db == DeltaFor(req[b].scores, p)
      IN /\ Stored(req[b].inserted)
         /\ Len(req[b].inserted) = Len(req[b].scores)
         /\ \A k \in 1..Len(req[a].inserted) :
              ~\E u \in score_updates : u.id = req[a].inserted[k]
         /\ ScoreIn(game_players, g, p) \in {base, base + db, base + da + db}

\* The successful round read the score the failed round had written and wrote
\* its own on top; the rollback then wrote back the score before both: the
\* successful round's row is stored and its delta is not in the score.
RollbackOverwriteWitness ==
  \E a, b \in Slots : \E p \in DOMAIN players :
    /\ FailedAndGoodRoundOn(a, b, p)
    /\ LET g == req[a].gameId
           base == ScoreBefore(a, b, g, p)
           ea == EntryFor(req[a].results, p)
           eb == EntryFor(req[b].results, p)
       IN /\ eb.delta # 0
          /\ ea.newScore = base + ea.delta
          /\ eb.newScore = base + ea.delta + eb.delta
          /\ Stored(req[b].inserted)
          /\ ScoreIn(game_players, g, p) = base

\* The steps of the two rollbacks.
RollbackSteps == {"c_rb_gp", "c_rb_game", "r_rb_delete", "r_rb_revert"}

\* The write calls an answered request of the kinds given has issued when a
\* call of its loop was rejected: those of the loop up to the rejected one,
\* then each rollback call once.
WritesWhenAborted(q) ==
  IF q.kind = "create"
  THEN 1 + Len(q.inserted) + 1 + 2
  ELSE Len(q.inserted) + Len(q.results)
         + (IF q.failed[1] \in {"upErr", "gpErr"} THEN 1 ELSE 0)
         + (IF q.inserted # <<>> THEN 1 + Len(q.results) ELSE 0)

\* A request of the kinds given of which a call was rejected is rolling back
\* or answered, and has issued no write but those of WritesWhenAborted.
AbortedAtFirstFailure(kinds) ==
  \A r \in Slots :
    LET q == req[r]
    IN (q.kind \in kinds /\ q.failed # <<>>) =>
         /\ q.pc \in RollbackSteps \cup {"done"}
         /\ (q.pc = "done" /\ q.failed[1] \in LoopCalls) => q.writes = WritesWhenAborted(q)

NoUpdatesOnlyWhenEmpty ==
  \A r \in Slots :
    (Answered(req[r], "undo") /\ req[r].error = "no updates") =>
      {u \in req[r].snap.score_updates : u.game_id = req[r].gameId} = {}

\* No two game_players rows hold the same (game, player) pair.
SeatPairsDistinct ==
  \A x, y \in game_players :
    (x.game_id = y.game_id /\ x.player_id = y.player_id) => x = y

\* A create-game request that lists a player twice.
RepeatsPlayer(q) == q.kind = "create" /\ ~BadPlayerCount(q.players) /\ ~Distinct(q.players)

\* C19 as stated: no two game_players rows hold the same (game, player)
\* pair, and a create-game request that lists a player twice issues no write
\* and is answered with a client error.
NoDoubleSeat ==
  /\ SeatPairsDistinct
  /\ \A r \in Slots :
       RepeatsPlayer(req[r]) =>
         /\ req[r].writes = 0
         /\ req[r].pc \in {"c_lookup", "done"}
         /\ req[r].pc = "done" => req[r].status = 400

\* C19 as amended: no two game_players rows hold the same (game, player)
\* pair, and a create-game request that lists a player twice issues no write
\* and is answered with a client error when its player lookup is answered,
\* with a server error when that lookup is rejected.
NoDoubleSeatUnlessLookupFails ==
  /\ SeatPairsDistinct
  /\ \A r \in Slots :
       RepeatsPlayer(req[r]) =>
         /\ req[r].writes = 0
         /\ req[r].pc \in {"c_lookup", "done"}
         /\ req[r].pc = "done" =>
              \/ req[r].failed = <<>> /\ req[r].status = 400
              \/ req[r].failed = <<"pErr">> /\ req[r].status = 500

\* A create-game request that listed an existing player twice has been
\* answered with a client error, beside a game created with five players.
NoDoubleSeatWitness ==
  /\ \E r \in Slots :
       /\ RepeatsPlayer(req[r]) /\ req[r].pc = "done"
       /\ req[r].status = 400
       /\ \A k \in 1..Len(req[r].players) : req[r].players[k] \in DOMAIN players
  /\ \E g \in games : Cardinality(RowsOfGame(g)) = 5

\* An apply-round request that names a player twice, every player it names
\* being a member of the game when it arrived.
RepeatsMember(q) ==
  /\ q.kind = "round"
  /\ ~Distinct([k \in 1..Len(q.scores) |-> q.scores[k].playerId])
  /\ ~InvalidPlayerId(q.scores)
  /\ ~NonMember(q)

\* A round is past its validation: in its loop, in its rollback, or answered
\* from one of them.
PastValidation(q) ==
  /\ q.kind = "round"
  /\ \/ q.pc \in {"r_insert", "r_read", "r_write", "r_rb_delete", "r_rb_revert"}
     \/ q.pc = "done" /\ (q.status = 200 \/ q.writes > 0 \/ q.err # "")

\* At most one delta per member was applied by request q.
OneDeltaPerMember(q) ==
  /\ Distinct([k \in 1..Len(q.scores) |-> q.scores[k].playerId])
  /\ Distinct([k \in 1..Len(q.results) |-> q.results[k].playerId])

\* C20 as stated: an apply-round request that names a member twice is
\* answered with a client error and leaves the store as it was, and every
\* round past its validation applies at most one delta per member.
RepeatedMemberRejected ==
  \A r \in Slots :
    /\ (Answered(req[r], "round") /\ RepeatsMember(req[r])) =>
         /\ req[r].status = 400
         /\ req[r].writes = 0
         /\ Store = req[r].snap
    /\ PastValidation(req[r]) => OneDeltaPerMember(req[r])

\* C20 as amended: an apply-round request that names a member twice leaves
\* the store as it was and is answered with a client error when its
\* membership lookup is answered, with a server error when that lookup is
\* rejected; every round past its validation applies at most one delta per
\* member.
RepeatedMemberNoWrite ==
  \A r \in Slots :
    /\ (Answered(req[r], "round") /\ RepeatsMember(req[r])) =>
         /\ req[r].writes = 0
         /\ Store = req[r].snap
         /\ \/ req[r].failed = <<>> /\ req[r].status = 400
            \/ req[r].failed = <<"memErr">> /\ req[r].status = 500
    /\ PastValidation(req[r]) => OneDeltaPerMember(req[r])

\* A round that named a member twice has been answered with a client error
\* after its membership lookup was answered.
RepeatedMemberWitness ==
  \E r \in Slots :
    /\ Answered(req[r], "round") /\ RepeatsMember(req[r])
    /\ req[r].failed = <<>>
    /\ req[r].status = 400
    /\ req[r].error = "one or more playerIds are not part of this game"

====
